---- MODULE Spec2Model ----
(***************************************************************************)
(* A model of scripts/fetch_ai_news.py: the collection of articles from    *)
(* RSS sources, the recency window and URL deduplication, the category     *)
(* classification in batches, the round-robin selection, and the archive   *)
(* of one file per date with its retention pruning.                        *)
(*                                                                         *)
(* Time is a clock of ticks, TicksPerDay ticks to a calendar day (JST);    *)
(* tick 0 of a day is the instant 00:00:00.000000.  A calendar date string *)
(* in the canonical form "%Y-%m-%d" is modelled by its day number.         *)
(***************************************************************************)
EXTENDS Integers, Sequences, FiniteSets, TLC

VARIABLES
    pc,             \* position of the run in main()
    now,            \* the clock, in ticks: what datetime.now(JST) returns
    TODAY,          \* module constant TODAY, read from the clock at import
    sources,        \* the source registry (data/sources.json)
    api_key,        \* whether ANTHROPIC_API_KEY is set
    max_count,      \* select_top_articles' max_count
    src_i,          \* collect_articles: index of the source fetched next
    all_articles,   \* collect_articles: all_articles
    failed,         \* history: indices of the sources whose fetch raised
    yesterday,      \* collect_articles: yesterday
    three_days_ago, \* collect_articles: three_days_ago
    recent,         \* collect_articles: recent (the window candidates)
    unique,         \* collect_articles: unique (its return value)
    refiltered,     \* the filter applied once more to its own output
    articles,       \* main: articles
    batch_i,        \* classify_articles: i, offset of the next batch
    responses,      \* history: the classifier outcome of each batch so far
    sel_input,      \* history: the argument of select_top_articles
    archive,        \* ARTICLES_DIR: file stem |-> stored article list
    old_archive,    \* history: ARTICLES_DIR before the last save or load
    cutoff,         \* load_recent_articles: cutoff (an instant, in ticks)
    loaded          \* load_recent_articles: all_articles (its return value)

vars == <<pc, now, TODAY, sources, api_key, max_count, src_i, all_articles,
          failed, yesterday, three_days_ago, recent, unique, refiltered,
          articles, batch_i, responses, sel_input, archive, old_archive,
          cutoff, loaded>>

----------------------------------------------------------------------------
(* Bounds of the model *)

TicksPerDay == 2      \* clock resolution: instants per calendar day
MaxDay == 8           \* the clock stops at the end of this day
MaxSkewDays == 1      \* a run crosses at most this many midnights
MaxArticles == 5      \* longest article list given to the filter
MaxSelLen == 4        \* longest enumerated input of select_top_articles
MaxCount == 5         \* largest enumerated max_count
MaxExtra == 2         \* articles beyond one full batch given to the classifier

(* Program constants *)

KEEP_DAYS == 7
MIN_RECENT == 5
WINDOW_DAYS == 3
MAX_ENTRIES == 30
batch_size == 20
MAIN_MAX_COUNT == 15

CATEGORIES ==
    {"LLM", "ImageVideo", "AudioMusic", "Robotics", "Regulation",
     "EthicsSafety", "Research", "ProductsTools", "BusinessFunding",
     "MedicalScience"}

FALLBACK == "ProductsTools"

NoCategory == ""          \* the article has no "category" key yet
NoDate == 0 - 1000        \* no date (None): no day number of the model
NoUrl == <<"", 0>>        \* the empty link

----------------------------------------------------------------------------
(* Clock and dates *)

Min(a, b) == IF a < b THEN a ELSE b
Max(a, b) == IF a > b THEN a ELSE b

MaxNow == (MaxDay + 1) * TicksPerDay - 1

\* datetime.now(JST).strftime("%Y-%m-%d"): the calendar day of an instant
Day(t) == t \div TicksPerDay

\* datetime.strptime(d, "%Y-%m-%d").replace(tzinfo=JST): midnight of a day
Midnight(d) == d * TicksPerDay

\* timedelta(days=n)
Days(n) == n * TicksPerDay

----------------------------------------------------------------------------
(* Sequences *)

Take(s, n) == SubSeq(s, 1, Min(n, Len(s)))

Range(s) == {s[i] : i \in 1..Len(s)}

----------------------------------------------------------------------------
(* Source registry and the feeds the network serves *)

SrcLean == [name |-> "lean", url |-> "feed_lean", lang |-> "ja"]
SrcDup  == [name |-> "dup",  url |-> "feed_dup",  lang |-> "en"]
SrcBig  == [name |-> "big",  url |-> "feed_big",  lang |-> "en"]

BigFeedLen == 17      \* entries of the largest feed (more than MAIN_MAX_COUNT)

Entry(title, link, published, updated) ==
    [title |-> title, link |-> link, published |-> published, updated |-> updated]

\* What feedparser yields for a source's URL on calendar day d.  The lean
\* feed carries one undated entry; the dup feed repeats a link, carries an
\* entry with a blank title and entries 3 and 4 days old; the big feed has
\* more entries than main() selects and ends with a link of the dup feed.
WebFeed(url, d) ==
    IF url = "feed_lean" THEN
        << Entry("daily", <<"lean", 0>>, NoDate, NoDate) >>
    ELSE IF url = "feed_dup" THEN
        << Entry("first", <<"dup", 1>>, d, NoDate),
           Entry("again", <<"dup", 1>>, NoDate, d - 1),
           Entry(" ", <<"dup", 2>>, d, NoDate),
           Entry("old", <<"dup", 3>>, d - 3, NoDate),
           Entry("older", <<"dup", 4>>, d - 4, d) >>
    ELSE
        [k \in 1..BigFeedLen |->
            IF k < BigFeedLen THEN Entry("big", <<"big", k>>, d, NoDate)
            ELSE Entry("shared", <<"dup", 1>>, d, NoDate)]

----------------------------------------------------------------------------
(* fetch_rss *)

NoFail == 0 - 1           \* the try block of fetch_rss raised nothing

\* str.strip() of a title: a blank title becomes the empty string
Strip(s) == IF s = " " THEN "" ELSE s

\* str.strip() of a link
StripUrl(l) == IF l[1] = " " THEN NoUrl ELSE l

\* lines 62-69: published_parsed, else updated_parsed, else TODAY
EntryDate(entry, today) ==
    IF entry.published # NoDate THEN entry.published
    ELSE IF entry.updated # NoDate THEN entry.updated
    ELSE today

\* lines 61-82: the loop body run over the first n entries
RECURSIVE ParseEntries(_, _, _, _)
ParseEntries(source, entries, n, today) ==
    IF n = 0 THEN <<>>
    ELSE LET entry  == entries[n]
             before == ParseEntries(source, entries, n - 1, today)
             title  == Strip(entry.title)
             link   == StripUrl(entry.link)
         IN  IF title = "" \/ link = NoUrl THEN before
             ELSE Append(before,
                    [title |-> title, url |-> link, source |-> source.name,
                     lang |-> source.lang, date |-> EntryDate(entry, today),
                     category |-> NoCategory])

\* fetch_rss(source) when the network serves `feed` and the try block raises
\* at failAt: 0 is a failure before the loop (requests.get, raise_for_status,
\* feedparser.parse), k >= 1 an exception while entry k is processed (before
\* its append), NoFail none.  The except clause logs and falls through to
\* `return articles`, so what was appended before the exception is returned.
fetch_rss(source, feed, failAt, today) ==
    LET entries == Take(feed, MAX_ENTRIES)
        n == IF failAt = NoFail THEN Len(entries)
             ELSE Max(0, Min(failAt - 1, Len(entries)))
    IN  ParseEntries(source, entries, n, today)

----------------------------------------------------------------------------
(* collect_articles: recency window and URL deduplication *)

\* line 100: (datetime.now(JST) - timedelta(days=1)).strftime("%Y-%m-%d")
Yesterday(t) == Day(t - Days(1))

\* Mutant of ThreeDaysAgo: the timedelta is added instead of subtracted
ThreeDaysAhead(t) == Day(t + Days(WINDOW_DAYS))

\* line 105: (datetime.now(JST) - timedelta(days=3)).strftime("%Y-%m-%d")
ThreeDaysAgo(t) == Day(t - Days(WINDOW_DAYS))

\* line 101: [a for a in all_articles if a["date"] in (TODAY, yesterday)]
PrimaryWindow(all, today, yday) ==
    SelectSeq(all, LAMBDA a : a.date \in {today, yday})

\* lines 106-107: articles whose parsed date is >= the parsed cutoff
EscalatedWindow(all, tda) ==
    SelectSeq(all, LAMBDA a : Midnight(a.date) >= Midnight(tda))

\* lines 110-115: the loop over recent[i..], with seen_urls and unique so far
RECURSIVE UniqueLoop(_, _, _, _)
UniqueLoop(rec, i, seen_urls, uniq) ==
    IF i > Len(rec) THEN uniq
    ELSE IF rec[i].url \notin seen_urls
         THEN UniqueLoop(rec, i + 1, seen_urls \cup {rec[i].url}, Append(uniq, rec[i]))
         ELSE UniqueLoop(rec, i + 1, seen_urls, uniq)

\* Mutant of UniqueByUrl: seen_urls.add is forgotten, so nothing is ever seen
UniqueByUrl_NoAdd(rec) == SelectSeq(rec, LAMBDA a : a.url \notin {})

\* lines 109-117
UniqueByUrl(rec) == UniqueLoop(rec, 1, {}, <<>>)

\* lines 99-117 with the clock read t1 at line 100 and t2 at line 105
RecencyDedup(all, today, t1, t2) ==
    LET prim == PrimaryWindow(all, today, Yesterday(t1))
    IN  IF Len(prim) < MIN_RECENT
        THEN UniqueByUrl(EscalatedWindow(all, ThreeDaysAgo(t2)))
        ELSE UniqueByUrl(prim)

----------------------------------------------------------------------------
(* classify_articles *)

\* The outcome of one batch's API call: "error" (the call or the access to
\* its text raised), "nomatch" (no [...] in the text), "badjson" (json.loads
\* raised) or "json" with the parsed list cats.
Outcome(kind, cats) == [kind |-> kind, cats |-> cats]

\* lines 169-173: the category of the article at 0-based position idx
LabelAt(cats, idx) ==
    IF idx < Len(cats) /\ cats[idx + 1] \in CATEGORIES
    THEN cats[idx + 1] ELSE FALLBACK

\* lines 158-180: the category batch position idx gets from the outcome
BatchCategory(resp, idx) ==
    IF resp.kind = "json" THEN LabelAt(resp.cats, idx) ELSE FALLBACK

\* Mutant of ClassifyOneBatch: a failed batch gives the fallback to every
\* article of the list instead of to the batch's own
ClassifyOneBatch_AllOnFailure(arts, i, resp) ==
    [p \in 1..Len(arts) |->
        IF resp.kind # "json"
        THEN [arts[p] EXCEPT !.category = FALLBACK]
        ELSE IF p > i /\ p <= i + batch_size
        THEN [arts[p] EXCEPT !.category = LabelAt(resp.cats, p - i - 1)]
        ELSE arts[p]]

\* lines 137-180 for the batch articles[i:i+batch_size]
ClassifyOneBatch(arts, i, resp) ==
    [p \in 1..Len(arts) |->
        IF p > i /\ p <= i + batch_size
        THEN [arts[p] EXCEPT !.category = BatchCategory(resp, p - i - 1)]
        ELSE arts[p]]

\* lines 125-129: no API key
ClassifyNoKey(arts) ==
    [p \in 1..Len(arts) |-> [arts[p] EXCEPT !.category = FALLBACK]]

----------------------------------------------------------------------------
(* select_top_articles *)

\* line 195: a.get("category", fallback)
CategoryOf(a) == IF a.category = NoCategory THEN FALLBACK ELSE a.category

\* lines 193-198 and 202: the keys of by_cat in insertion (first-seen) order
RECURSIVE CatKeys(_, _)
CatKeys(arts, n) ==
    IF n = 0 THEN <<>>
    ELSE LET before == CatKeys(arts, n - 1)
             cat == CategoryOf(arts[n])
         IN  IF cat \in Range(before) THEN before ELSE Append(before, cat)

\* lines 193-198: by_cat[cat]
ByCat(arts, cat) == SelectSeq(arts, LAMBDA a : CategoryOf(a) = cat)

\* Mutant of Sweep: the for loop does not test len(selected) < max_count
RECURSIVE Sweep_NoCap(_, _, _, _, _)
Sweep_NoCap(arts, cat_keys, maxc, k, st) ==
    IF k > Len(cat_keys) THEN st
    ELSE LET cat == cat_keys[k]
             group == ByCat(arts, cat)
         IN  IF st.idx_per_cat[cat] < Len(group)
             THEN Sweep_NoCap(arts, cat_keys, maxc, k + 1,
                        [selected |-> Append(st.selected, group[st.idx_per_cat[cat] + 1]),
                         idx_per_cat |-> [st.idx_per_cat EXCEPT ![cat] = @ + 1],
                         added |-> TRUE])
             ELSE Sweep_NoCap(arts, cat_keys, maxc, k + 1, st)

\* lines 207-211: the for loop over cat_keys[k..]; st holds selected,
\* idx_per_cat and added
RECURSIVE Sweep(_, _, _, _, _)
Sweep(arts, cat_keys, maxc, k, st) ==
    IF k > Len(cat_keys) THEN st
    ELSE LET cat == cat_keys[k]
             group == ByCat(arts, cat)
         IN  IF st.idx_per_cat[cat] < Len(group) /\ Len(st.selected) < maxc
             THEN Sweep(arts, cat_keys, maxc, k + 1,
                        [selected |-> Append(st.selected, group[st.idx_per_cat[cat] + 1]),
                         idx_per_cat |-> [st.idx_per_cat EXCEPT ![cat] = @ + 1],
                         added |-> TRUE])
             ELSE Sweep(arts, cat_keys, maxc, k + 1, st)

\* lines 205-213: the while loop
RECURSIVE RoundRobin(_, _, _, _)
RoundRobin(arts, cat_keys, maxc, st) ==
    IF Len(st.selected) < maxc
    THEN LET after == Sweep(arts, cat_keys, maxc, 1, [st EXCEPT !.added = FALSE])
         IN  IF after.added THEN RoundRobin(arts, cat_keys, maxc, after)
             ELSE after.selected
    ELSE st.selected

\* Mutant of select_top_articles: the first max_count articles are taken
select_first_articles(arts, maxc) == Take(arts, maxc)

\* lines 187-215
select_top_articles(arts, maxc) ==
    IF Len(arts) <= maxc THEN arts
    ELSE LET cat_keys == CatKeys(arts, Len(arts))
         IN  RoundRobin(arts, cat_keys, maxc,
                        [selected |-> <<>>,
                         idx_per_cat |-> [c \in Range(cat_keys) |-> 0],
                         added |-> FALSE])

----------------------------------------------------------------------------
(* The archive: save_articles and load_recent_articles *)

\* The stem of a file of ARTICLES_DIR/*.json: a canonical date string
\* ("iso"), another spelling strptime accepts, such as 2024-1-5 ("short"),
\* or a name that is no date ("stray").
DateStem(d, form) == [kind |-> "date", day |-> d, form |-> form]
StrayStem == [kind |-> "stray", day |-> 0, form |-> "x"]

\* line 223: the stem of f"{date_str}.json" for a canonical date string
Stem(date_str) == DateStem(date_str, "iso")

\* line 237: strptime(date_str, "%Y-%m-%d"); NoDate stands for ValueError
Strptime(stem) == IF stem.kind = "date" THEN stem.day ELSE NoDate

\* Mutant of save_articles: the list is added to what the file holds
save_articles_Append(dir, arts, date_str) ==
    [n \in DOMAIN dir \cup {Stem(date_str)} |->
        IF n = Stem(date_str)
        THEN (IF n \in DOMAIN dir THEN dir[n] \o arts ELSE arts)
        ELSE dir[n]]

\* lines 220-226: open(path, "w") truncates, json.dump writes the list
save_articles(dir, arts, date_str) ==
    [n \in DOMAIN dir \cup {Stem(date_str)} |->
        IF n = Stem(date_str) THEN arts ELSE dir[n]]

\* Mutant of Expired: a file dated exactly at the cutoff is deleted too
Expired_Inclusive(stem, cut) ==
    Strptime(stem) # NoDate /\ Midnight(Strptime(stem)) <= cut

\* lines 236-241: the file's name parses and its date is before the cutoff
Expired(stem, cut) ==
    Strptime(stem) # NoDate /\ Midnight(Strptime(stem)) < cut

\* lines 234-245: the directory after the loop (path.unlink of old files)
Pruned(dir, cut) ==
    [n \in {m \in DOMAIN dir : ~Expired(m, cut)} |-> dir[n]]

\* lines 234-251: the returned mapping date_str |-> json.load(file)
load_recent_articles(dir, cut) ==
    [n \in {m \in DOMAIN dir : Strptime(m) # NoDate /\ ~Expired(m, cut)} |-> dir[n]]

\* line 232: cutoff = datetime.now(JST) - timedelta(days=KEEP_DAYS)
Cutoff(t) == t - Days(KEEP_DAYS)

----------------------------------------------------------------------------
(* The steps of a run of main() *)

EmptyDir == [n \in {} |-> <<>>]

\* line 23 at import and line 572: TODAY is read from the clock once
Start ==
    /\ pc = "start"
    /\ TODAY' = Day(now)
    /\ src_i' = 1
    /\ all_articles' = <<>>
    /\ failed' = {}
    /\ pc' = IF Len(sources) = 0 THEN "window" ELSE "collect"
    /\ UNCHANGED <<now, sources, api_key, max_count, yesterday, three_days_ago,
                   recent, unique, refiltered, articles, batch_i, responses,
                   sel_input, archive, old_archive, cutoff, loaded>>

\* Where fetch_rss may raise over n entries: nowhere, before the loop, or
\* at the first, the second or the last entry
FailPoints(n) == {NoFail, 0} \cup {k \in {1, 2, n} : k >= 1 /\ k <= n}

\* lines 93-97: one iteration of the loop over sources
FetchRss ==
    /\ pc = "collect"
    /\ LET source == sources[src_i]
           feed == WebFeed(source.url, Day(now))
       IN  \E failAt \in FailPoints(Len(Take(feed, MAX_ENTRIES))) :
              /\ all_articles' = all_articles \o fetch_rss(source, feed, failAt, TODAY)
              /\ failed' = IF failAt = NoFail THEN failed ELSE failed \cup {src_i}
    /\ src_i' = src_i + 1
    /\ pc' = IF src_i + 1 > Len(sources) THEN "window" ELSE "collect"
    /\ UNCHANGED <<now, TODAY, sources, api_key, max_count, yesterday,
                   three_days_ago, recent, unique, refiltered, articles, batch_i,
                   responses, sel_input, archive, old_archive, cutoff, loaded>>

\* lines 100-104
FilterRecent ==
    /\ pc = "window"
    /\ yesterday' = Yesterday(now)
    /\ recent' = PrimaryWindow(all_articles, TODAY, Yesterday(now))
    /\ pc' = IF Len(recent') < MIN_RECENT THEN "escalate" ELSE "dedup"
    /\ UNCHANGED <<now, TODAY, sources, api_key, max_count, src_i, all_articles,
                   failed, three_days_ago, unique, refiltered, articles, batch_i,
                   responses, sel_input, archive, old_archive, cutoff, loaded>>

\* lines 105-107
Escalate ==
    /\ pc = "escalate"
    /\ three_days_ago' = ThreeDaysAgo(now)
    /\ recent' = EscalatedWindow(all_articles, ThreeDaysAgo(now))
    /\ pc' = "dedup"
    /\ UNCHANGED <<now, TODAY, sources, api_key, max_count, src_i, all_articles,
                   failed, yesterday, unique, refiltered, articles, batch_i,
                   responses, sel_input, archive, old_archive, cutoff, loaded>>

\* lines 109-117, and main lines 576-581: no article ends the run
Dedup ==
    /\ pc = "dedup"
    /\ unique' = UniqueByUrl(recent)
    /\ articles' = unique'
    /\ batch_i' = 0
    /\ responses' = <<>>
    /\ pc' = IF unique' = <<>> THEN "done" ELSE "classify"
    /\ UNCHANGED <<now, TODAY, sources, api_key, max_count, src_i, all_articles,
                   failed, yesterday, three_days_ago, recent, refiltered,
                   sel_input, archive, old_archive, cutoff, loaded>>

\* The label patterns a classifier response is built from: one label
\* throughout, or two alternating.  "bogus" stands for every element that is
\* no member of CATEGORIES (a free-form string, a number).
RespPatterns ==
    {<<"LLM", "LLM">>, <<"bogus", "bogus">>, <<"LLM", "bogus">>,
     <<"Research", FALLBACK>>}

\* The outcomes enumerated for a batch of m articles: lists shorter than,
\* as long as and longer than the batch.
Responses(m) ==
    {Outcome("error", <<>>), Outcome("nomatch", <<>>), Outcome("badjson", <<>>)}
        \cup {Outcome("json", [j \in 1..n |-> IF j % 2 = 1 THEN pat[1] ELSE pat[2]]) :
                n \in {k \in {0, 1, m - 1, m, m + 1} : k >= 0}, pat \in RespPatterns}

\* lines 124-182: without a key every article gets the fallback; with one,
\* one iteration of the loop over the batches, or the loop's exit
ClassifyBatch ==
    /\ pc = "classify"
    /\ IF ~api_key
       THEN /\ articles' = ClassifyNoKey(articles)
            /\ pc' = "select"
            /\ UNCHANGED <<batch_i, responses>>
       ELSE IF batch_i >= Len(articles)
       THEN /\ pc' = "select"
            /\ UNCHANGED <<articles, batch_i, responses>>
       ELSE \E resp \in Responses(Min(batch_size, Len(articles) - batch_i)) :
            /\ articles' = ClassifyOneBatch(articles, batch_i, resp)
            /\ responses' = Append(responses, resp)
            /\ batch_i' = batch_i + batch_size
            /\ pc' = "classify"
    /\ UNCHANGED <<now, TODAY, sources, api_key, max_count, src_i, all_articles,
                   failed, yesterday, three_days_ago, recent, unique, refiltered,
                   sel_input, archive, old_archive, cutoff, loaded>>

\* line 587
Select ==
    /\ pc = "select"
    /\ sel_input' = articles
    /\ articles' = select_top_articles(articles, max_count)
    /\ pc' = "save"
    /\ UNCHANGED <<now, TODAY, sources, api_key, max_count, src_i, all_articles,
                   failed, yesterday, three_days_ago, recent, unique, refiltered,
                   batch_i, responses, archive, old_archive, cutoff, loaded>>

\* line 591
Save ==
    /\ pc = "save"
    /\ old_archive' = archive
    /\ archive' = save_articles(archive, articles, TODAY)
    /\ pc' = "load"
    /\ UNCHANGED <<now, TODAY, sources, api_key, max_count, src_i, all_articles,
                   failed, yesterday, three_days_ago, recent, unique, refiltered,
                   articles, batch_i, responses, sel_input, cutoff, loaded>>

\* lines 594-606: the window is loaded (and pruned); the page rendered from
\* it is not part of the model
Load ==
    /\ pc = "load"
    /\ old_archive' = archive
    /\ cutoff' = Cutoff(now)
    /\ archive' = Pruned(archive, Cutoff(now))
    /\ loaded' = load_recent_articles(archive, Cutoff(now))
    /\ pc' = "done"
    /\ UNCHANGED <<now, TODAY, sources, api_key, max_count, src_i, all_articles,
                   failed, yesterday, three_days_ago, recent, unique, refiltered,
                   articles, batch_i, responses, sel_input>>

\* The scheduler starts the next run: a new process
NewRun ==
    /\ pc = "done"
    /\ pc' = "start"
    /\ src_i' = 1
    /\ all_articles' = <<>>
    /\ failed' = {}
    /\ yesterday' = NoDate
    /\ three_days_ago' = NoDate
    /\ recent' = <<>>
    /\ unique' = <<>>
    /\ articles' = <<>>
    /\ batch_i' = 0
    /\ responses' = <<>>
    /\ sel_input' = <<>>
    /\ old_archive' = EmptyDir
    /\ cutoff' = NoDate
    /\ loaded' = EmptyDir
    /\ UNCHANGED <<now, TODAY, sources, api_key, max_count, refiltered, archive>>

\* Time passes: at any moment between two runs, and during a run as long as
\* the run crosses no more than MaxSkewDays midnights.
Tick ==
    /\ now < MaxNow
    /\ IF pc \in {"start", "done"} THEN TRUE
       ELSE Day(now + 1) <= TODAY + MaxSkewDays
    /\ now' = now + 1
    /\ UNCHANGED <<pc, TODAY, sources, api_key, max_count, src_i, all_articles,
                   failed, yesterday, three_days_ago, recent, unique, refiltered,
                   articles, batch_i, responses, sel_input, archive, old_archive,
                   cutoff, loaded>>

\* The recency and dedup filter applied to its own output, at the clock's
\* present reading
ReFilter ==
    /\ pc \in {"classify", "done"}
    /\ refiltered' = RecencyDedup(unique, TODAY, now, now)
    /\ pc' = "refiltered"
    /\ UNCHANGED <<now, TODAY, sources, api_key, max_count, src_i, all_articles,
                   failed, yesterday, three_days_ago, recent, unique, articles,
                   batch_i, responses, sel_input, archive, old_archive, cutoff,
                   loaded>>

----------------------------------------------------------------------------
(* Specifications *)

\* The locals of a process that has computed nothing yet
Idle ==
    /\ src_i = 1
    /\ failed = {}
    /\ yesterday = NoDate
    /\ three_days_ago = NoDate
    /\ recent = <<>>
    /\ unique = <<>>
    /\ refiltered = <<>>
    /\ batch_i = 0
    /\ responses = <<>>
    /\ sel_input = <<>>
    /\ old_archive = EmptyDir
    /\ cutoff = NoDate
    /\ loaded = EmptyDir

\* The state of a process before main() runs, but for pc, the clock, the
\* environment and the archive
Fresh == Idle /\ all_articles = <<>> /\ articles = <<>>

\* Runs of main() one after the other, from an empty archive, over one
\* source with one undated entry and without an API key
Init ==
    /\ pc = "start"
    /\ now = 0
    /\ TODAY = 0
    /\ sources = <<SrcLean>>
    /\ api_key = FALSE
    /\ max_count = MAIN_MAX_COUNT
    /\ archive = EmptyDir
    /\ Fresh

Next ==
    \/ Start \/ FetchRss \/ FilterRecent \/ Escalate \/ Dedup \/ ClassifyBatch
    \/ Select \/ Save \/ Load \/ NewRun \/ Tick

Spec == Init /\ [][Next]_vars

----------------------------------------------------------------------------
(* One run of main() over richer registries *)

Registries ==
    {<<SrcDup>>, <<SrcDup, SrcBig>>, <<SrcBig, SrcDup>>, <<SrcLean, SrcDup>>}

\* An article as fetch_rss builds it
Article(title, url, date, category) ==
    [title |-> title, url |-> url, source |-> "s", lang |-> "en",
     date |-> date, category |-> category]

InitPipeline ==
    /\ pc = "start"
    /\ now \in Midnight(KEEP_DAYS)..(Midnight(KEEP_DAYS + 1) - 1)
    /\ TODAY = KEEP_DAYS
    /\ sources \in Registries
    /\ api_key \in BOOLEAN
    /\ max_count = MAIN_MAX_COUNT
    /\ archive \in {EmptyDir,
                    [n \in {Stem(0)} |-> <<Article("kept", <<"u", 0>>, 0, FALLBACK)>>]}
    /\ Fresh

\* The run is short: the clock stands still while it lasts
NextPipeline ==
    \/ Start \/ FetchRss \/ FilterRecent \/ Escalate \/ Dedup \/ ClassifyBatch
    \/ Select \/ Save \/ Load

SpecPipeline == InitPipeline /\ [][NextPipeline]_vars

----------------------------------------------------------------------------
(* The recency and dedup filter over enumerated article lists *)

\* Dates around TODAY: tomorrow, today, yesterday, 3 and 4 days ago
FilterDates(today) == {today + 1, today, today - 1, today - 3, today - 4}

\* n articles with the given dates; URLs repeat with period m
Dated(dates, m) ==
    [i \in 1..Len(dates) |-> Article("t", <<"u", i % m>>, dates[i], NoCategory)]

\* Longer lists with distinct URLs: 3 of today and 2 of yesterday among
\* older ones; 2 recent ones among older ones; 4 of today, 1 of yesterday
\* and 1 of tomorrow
FilterScenarios(today) ==
    {Dated(<<today, today - 3, today, today - 1, today - 4, today, today - 1>>, 100),
     Dated(<<today - 4, today, today - 3, today - 1, today - 2>>, 100),
     Dated(<<today, today, today - 1, today, today + 1, today>>, 100)}

\* lines 93-97 with the fetches left open: the loop extends all_articles by
\* one more article of some date in FilterDates, its URL alternating
\* between two values
Gather ==
    /\ pc = "gather"
    /\ Len(all_articles) < MaxArticles
    /\ \E d \in FilterDates(TODAY) :
          all_articles' = Append(all_articles,
              Article("t", <<"u", (Len(all_articles) + 1) % 2>>, d, NoCategory))
    /\ UNCHANGED <<pc, now, TODAY, sources, api_key, max_count, src_i, failed,
                   yesterday, three_days_ago, recent, unique, refiltered,
                   articles, batch_i, responses, sel_input, archive, old_archive,
                   cutoff, loaded>>

\* line 93: the loop over the sources ends
GatherEnd ==
    /\ pc = "gather"
    /\ pc' = "window"
    /\ UNCHANGED <<now, TODAY, sources, api_key, max_count, src_i, all_articles,
                   failed, yesterday, three_days_ago, recent, unique, refiltered,
                   articles, batch_i, responses, sel_input, archive, old_archive,
                   cutoff, loaded>>

\* collect_articles in a process imported on day KEEP_DAYS, with the clock
\* on that day or up to MaxSkewDays midnights later: before its loop, or
\* after it with one of the scenarios collected
InitFilter ==
    /\ now \in {Midnight(d) : d \in KEEP_DAYS..(KEEP_DAYS + MaxSkewDays)}
    /\ TODAY = KEEP_DAYS
    /\ sources = <<>>
    /\ api_key = FALSE
    /\ max_count = MAIN_MAX_COUNT
    /\ archive = EmptyDir
    /\ \/ pc = "gather" /\ all_articles = <<>>
       \/ pc = "window" /\ all_articles \in FilterScenarios(KEEP_DAYS)
    /\ articles = <<>>
    /\ Idle

NextFilter == Gather \/ GatherEnd \/ FilterRecent \/ Escalate \/ Dedup \/ ReFilter

SpecFilter == InitFilter /\ [][NextFilter]_vars

----------------------------------------------------------------------------
(* select_top_articles over enumerated classified lists *)

SelCats == {"LLM", "Research", FALLBACK, NoCategory}

\* Classified articles with the given categories; URLs repeat with period m
\* (period 1 makes the articles of one category equal)
Classified(cats, m) ==
    [i \in 1..Len(cats) |-> Article("t", <<"u", i % m>>, KEEP_DAYS, cats[i])]

\* 10 articles of one category, 2 of a second and 1 of a third, in three orders
FairnessExamples ==
    {Classified([i \in 1..13 |-> IF i <= 10 THEN "LLM"
                                  ELSE IF i <= 12 THEN "Research" ELSE "Robotics"], 100),
     Classified([i \in 1..13 |-> IF i = 1 THEN "Robotics"
                                  ELSE IF i <= 3 THEN "Research" ELSE "LLM"], 100),
     Classified([i \in 1..13 |-> IF i \in {2, 9} THEN "Research"
                                  ELSE IF i = 5 THEN "Robotics" ELSE "LLM"], 100)}

SelectInputs ==
    UNION {{Classified(cats, m) : cats \in [1..n -> SelCats], m \in {1, 100}} :
           n \in 0..MaxSelLen}
        \cup FairnessExamples

InitSelect ==
    /\ pc = "select"
    /\ now = Midnight(KEEP_DAYS)
    /\ TODAY = KEEP_DAYS
    /\ sources = <<>>
    /\ api_key = FALSE
    /\ max_count \in 0..MaxCount
    /\ archive = EmptyDir
    /\ all_articles = <<>>
    /\ articles \in SelectInputs
    /\ Idle

NextSelect == Select

SpecSelect == InitSelect /\ [][NextSelect]_vars

----------------------------------------------------------------------------
(* classify_articles over lists of one or two batches *)

Plain(n) == [i \in 1..n |-> Article("t", <<"u", i>>, KEEP_DAYS, NoCategory)]

ClassifyLens == {0, 1, 2} \cup ((batch_size - 1)..(batch_size + MaxExtra))

InitClassify ==
    /\ pc = "classify"
    /\ now = Midnight(KEEP_DAYS)
    /\ TODAY = KEEP_DAYS
    /\ sources = <<>>
    /\ api_key \in BOOLEAN
    /\ max_count = MAIN_MAX_COUNT
    /\ archive = EmptyDir
    /\ all_articles = <<>>
    /\ articles \in {Plain(n) : n \in ClassifyLens}
    /\ Idle

NextClassify == ClassifyBatch

SpecClassify == InitClassify /\ [][NextClassify]_vars

----------------------------------------------------------------------------
(* save_articles and load_recent_articles over enumerated directories *)

\* File stems around TODAY: canonical dates, another spelling of a date 8
\* days back, and a name that is no date
ArchiveStems(today) ==
    {DateStem(today + o, "iso") : o \in {0 - 9, 0 - 8, 0 - 7, 0 - 6, 0 - 1, 0, 1}}
        \cup {DateStem(today - 8, "short"), StrayStem}

\* What an earlier run stored under a stem
StoredList(stem) == <<Article("stored", <<"u", stem.day>>, stem.day, "LLM")>>

ArchiveInputs(today) ==
    {[n \in S |-> StoredList(n)] : S \in SUBSET ArchiveStems(today)}

SaveInputs ==
    {<<Article("new", <<"u", 1>>, KEEP_DAYS, "LLM")>>,
     <<Article("new", <<"u", 1>>, KEEP_DAYS, "LLM"),
       Article("stored", <<"u", KEEP_DAYS>>, KEEP_DAYS, "LLM")>>}

\* main() before line 591, in a process imported on day KEEP_DAYS, with the
\* clock on that day or up to MaxSkewDays midnights later
InitArchive ==
    /\ pc = "save"
    /\ now \in Midnight(KEEP_DAYS)..(Midnight(KEEP_DAYS + MaxSkewDays + 1) - 1)
    /\ TODAY = KEEP_DAYS
    /\ sources = <<>>
    /\ api_key = FALSE
    /\ max_count = MAIN_MAX_COUNT
    /\ archive \in ArchiveInputs(KEEP_DAYS)
    /\ all_articles = <<>>
    /\ articles \in SaveInputs
    /\ Idle

NextArchive == Save \/ Load

SpecArchive == InitArchive /\ [][NextArchive]_vars

----------------------------------------------------------------------------
(* Properties *)

\* How often a occurs in the sequence s
Count(s, a) == Cardinality({i \in 1..Len(s) : s[i] = a})

\* No two members of s have the same url
DistinctUrls(s) == \A i, j \in 1..Len(s) : s[i].url = s[j].url => i = j

\* How many members of s are of category c
InCategory(s, c) == Cardinality({i \in 1..Len(s) : CategoryOf(s[i]) = c})

\* C1: select_top_articles(articles, max_count) returns exactly
\* min(max_count, len(articles)) articles, and no article more often than
\* the input holds it.
C1_SelectionBound ==
    pc = "save" =>
        /\ Len(articles) = Min(max_count, Len(sel_input))
        /\ \A i \in 1..Len(articles) :
              Count(articles, articles[i]) <= Count(sel_input, articles[i])

\* A selection that cut a list holding equal articles down to max_count
C1_Witness ==
    /\ pc = "save"
    /\ 0 < max_count
    /\ max_count < Len(sel_input)
    /\ Len(articles) = max_count
    /\ \E i, j \in 1..Len(sel_input) : i # j /\ sel_input[i] = sel_input[j]

\* The position in sel_input at which category c is first seen
FirstSeen(c) ==
    CHOOSE i \in 1..Len(sel_input) :
        /\ CategoryOf(sel_input[i]) = c
        /\ \A j \in 1..(i - 1) : CategoryOf(sel_input[j]) # c

\* The sweep in which the selected article at position p was drawn: how many
\* articles of its category were selected before it
SweepOf(p) ==
    Cardinality({q \in 1..(p - 1) : CategoryOf(articles[q]) = CategoryOf(articles[p])})

\* The input is 10 articles of LLM, 2 of Research and 1 of Robotics, and
\* max_count is 5
FairnessCase ==
    /\ Len(sel_input) = 13
    /\ InCategory(sel_input, "LLM") = 10
    /\ InCategory(sel_input, "Research") = 2
    /\ InCategory(sel_input, "Robotics") = 1
    /\ max_count = 5

\* C2: when the input has more than max_count articles, the selection is a
\* round-robin over the categories in first-seen order: the selected
\* articles come sweep by sweep, within a sweep in the categories'
\* first-seen order, each category giving its articles in input order; so a
\* category gets at most one article more than any category that was not
\* exhausted; and 10 + 2 + 1 articles with max_count 5 give 2, 2 and 1.
C2_RoundRobinFair ==
    (pc = "save" /\ Len(sel_input) > max_count) =>
        LET cats == {CategoryOf(sel_input[i]) : i \in 1..Len(sel_input)}
        IN  /\ \A c1, c2 \in cats :
                  \/ InCategory(articles, c1) <= InCategory(articles, c2) + 1
                  \/ InCategory(articles, c2) = InCategory(sel_input, c2)
            /\ \A p, q \in 1..Len(articles) :
                  p < q =>
                      \/ SweepOf(p) < SweepOf(q)
                      \/ /\ SweepOf(p) = SweepOf(q)
                         /\ FirstSeen(CategoryOf(articles[p])) < FirstSeen(CategoryOf(articles[q]))
            /\ \A c \in cats :
                  SelectSeq(articles, LAMBDA a : CategoryOf(a) = c)
                      = Take(SelectSeq(sel_input, LAMBDA a : CategoryOf(a) = c),
                             InCategory(articles, c))
            /\ FairnessCase =>
                  /\ InCategory(articles, "LLM") = 2
                  /\ InCategory(articles, "Research") = 2
                  /\ InCategory(articles, "Robotics") = 1

\* The selection of 5 out of 10 + 2 + 1 articles, with the smallest
\* category seen first
C2_Witness ==
    /\ pc = "save"
    /\ FairnessCase
    /\ CategoryOf(sel_input[1]) = "Robotics"
    /\ InCategory(articles, "LLM") = 2
    /\ InCategory(articles, "Research") = 2
    /\ InCategory(articles, "Robotics") = 1

\* The claim of C3 for one reading of "today"
WindowClaim(today) ==
    LET prim == SelectSeq(all_articles, LAMBDA a : a.date \in {today, today - 1})
    IN  recent = IF Len(prim) >= 5 THEN prim
                 ELSE SelectSeq(all_articles, LAMBDA a : a.date >= today - 3)

\* C3: if at least 5 collected articles are dated today or today minus 1
\* day, the candidates of the recency filter are exactly those; otherwise
\* they are exactly the collected articles dated on or after today minus 3
\* days.  Today is read as the run's TODAY or as the clock's present date.
C3_WindowEscalation ==
    pc = "dedup" => (WindowClaim(TODAY) \/ WindowClaim(Day(now)))

\* C3 holds of the runs in which the clock's date at the filter is TODAY
C3_SameDay ==
    (pc = "dedup" /\ Day(now) = TODAY) => WindowClaim(TODAY)

\* The positions of s that hold the first occurrence of their url
FirstOccurrences(s) ==
    {i \in 1..Len(s) : \A j \in 1..(i - 1) : s[j].url # s[i].url}

\* u holds exactly the first occurrences of s, in the order of s
KeepsFirstOccurrences(u, s) ==
    /\ Len(u) = Cardinality(FirstOccurrences(s))
    /\ \A m \in 1..Len(u) :
          \E i \in FirstOccurrences(s) :
              /\ Cardinality({j \in FirstOccurrences(s) : j <= i}) = m
              /\ u[m] = s[i]

\* C4: the list the recency and dedup filter returns holds, for each url of
\* the window candidates, exactly its first occurrence, in the candidates'
\* order (unique and recent do not change once the filter has returned, at
\* pc "classify", or "done" when it returned nothing); no two articles of
\* it, of the selection or of the list persisted for the date share a url.
C4_UniqueUrls ==
    /\ (pc = "classify" \/ (pc = "done" /\ cutoff = NoDate)) =>
          KeepsFirstOccurrences(unique, recent)
    /\ pc \in {"classify", "select", "save", "load", "done"} =>
          /\ DistinctUrls(unique)
          /\ DistinctUrls(articles)
    /\ pc = "load" => DistinctUrls(archive[Stem(TODAY)])
    /\ (pc = "done" /\ cutoff # NoDate) => DistinctUrls(old_archive[Stem(TODAY)])

\* A run in which the filter dropped a duplicate, the selection cut the
\* list, and the result was persisted
C4_Witness ==
    /\ pc = "done"
    /\ cutoff # NoDate
    /\ Len(unique) < Len(recent)
    /\ Len(articles) < Len(sel_input)
    /\ old_archive[Stem(TODAY)] = articles

\* C5: the recency and dedup filter applied to its own output, under the
\* same TODAY and clock, returns that output unchanged.
C5_FilterIdempotent ==
    pc = "refiltered" => refiltered = unique

\* The first pass kept the primary window of at least 5 articles, the
\* deduplication left fewer than 5, and the second pass escalated
C5_Witness ==
    /\ pc = "refiltered"
    /\ Day(now) = TODAY
    /\ Len(PrimaryWindow(all_articles, TODAY, TODAY - 1)) >= 5
    /\ three_days_ago = NoDate
    /\ Len(unique) > 0
    /\ Len(unique) < 5
    /\ refiltered = unique

\* C6: load_recent_articles deletes exactly the files whose name parses as
\* a date whose midnight is before now minus 7 days, and returns exactly
\* the other date-named files with their stored lists; files whose name is
\* no date are neither deleted nor returned.  The files of today and of 6
\* days ago are returned, the file of 8 days ago is deleted.
C6_RetentionPruning ==
    pc = "done" =>
        LET dated == {n \in DOMAIN old_archive : n.kind = "date"}
            old == {n \in dated : n.day * TicksPerDay < now - 7 * TicksPerDay}
            today == Day(now)
        IN  /\ DOMAIN archive = DOMAIN old_archive \ old
            /\ \A n \in DOMAIN archive : archive[n] = old_archive[n]
            /\ DOMAIN loaded = dated \ old
            /\ \A n \in DOMAIN loaded : loaded[n] = old_archive[n]
            /\ \A n \in dated :
                  /\ n.day \in {today, today - 6} => n \in DOMAIN loaded
                  /\ n.day = today - 8 => n \notin DOMAIN archive

\* The directory held the files of today, of 6 and of 8 days ago and a file
\* that is no date; the first two were returned and the third deleted
C6_Witness ==
    /\ pc = "done"
    /\ Day(now) = TODAY
    /\ DOMAIN old_archive =
          {Stem(TODAY), Stem(TODAY - 6), Stem(TODAY - 8), StrayStem}
    /\ DOMAIN loaded = {Stem(TODAY), Stem(TODAY - 6)}
    /\ DOMAIN archive = {Stem(TODAY), Stem(TODAY - 6), StrayStem}

\* The category the claim gives batch position idx under an outcome
ClaimedCategory(resp, idx) ==
    IF /\ resp.kind = "json"
       /\ Len(resp.cats) > idx
       /\ resp.cats[idx + 1] \in CATEGORIES
    THEN resp.cats[idx + 1]
    ELSE FALLBACK

\* C7: the category of the article at position idx of a batch is decided by
\* that batch's own outcome alone: the label at idx when the response
\* parsed, is long enough and the label is in the enumeration, the fallback
\* otherwise; articles of batches not yet processed have no category; every
\* assigned category is in the enumeration, with or without an API key.
C7_BatchIsolation ==
    /\ pc = "select" => \A p \in 1..Len(articles) : articles[p].category \in CATEGORIES
    /\ (pc \in {"classify", "select"} /\ api_key) =>
        /\ \A p \in 1..Len(articles) :
              LET b == ((p - 1) \div 20) + 1
              IN  IF b <= Len(responses)
                  THEN /\ articles[p].category = ClaimedCategory(responses[b], (p - 1) % 20)
                       /\ articles[p].category \in CATEGORIES
                  ELSE articles[p].category = NoCategory
        /\ pc = "select" => Len(responses) * 20 >= Len(articles)

\* A batch of 20 whose response was malformed got the fallback throughout,
\* and the batch after it got the labels of its own response
C7_Witness ==
    /\ pc = "select"
    /\ api_key
    /\ Len(responses) = 2
    /\ responses[1].kind = "badjson"
    /\ responses[2].kind = "json"
    /\ \A p \in 1..20 : articles[p].category = FALLBACK
    /\ articles[21].category = "LLM"

\* C8: save_articles leaves the entry of the date equal to the given list,
\* whatever it held before, and every other entry as it was.
C8_SaveReplaces ==
    pc = "load" =>
        /\ DOMAIN archive = DOMAIN old_archive \cup {Stem(TODAY)}
        /\ archive[Stem(TODAY)] = articles
        /\ \A n \in DOMAIN old_archive : n # Stem(TODAY) => archive[n] = old_archive[n]

\* The date had an entry of other content, and other dates had entries
C8_Witness ==
    /\ pc = "load"
    /\ Stem(TODAY) \in DOMAIN old_archive
    /\ old_archive[Stem(TODAY)] # articles
    /\ archive[Stem(TODAY)] = articles
    /\ Len(articles) = 2
    /\ Cardinality(DOMAIN archive) > 2

\* What the sources 1..k give when the failing ones are left out
RECURSIVE WithoutFailing(_)
WithoutFailing(k) ==
    IF k = 0 THEN <<>>
    ELSE WithoutFailing(k - 1) \o
            (IF k \in failed THEN <<>>
             ELSE fetch_rss(sources[k], WebFeed(sources[k].url, Day(now)), NoFail, TODAY))

\* C9: a source whose fetch fails contributes no article, and the collected
\* list is what the other sources give without it.
C9_FailedSourceIsolated ==
    pc \in {"collect", "window"} => all_articles = WithoutFailing(src_i - 1)

\* C10: after a run that persisted a selection and loaded the window, the
\* archive holds entries for at most 7 dates, today and the 6 days before.
C10_RetentionHorizon ==
    (pc = "done" /\ cutoff # NoDate) =>
        LET today == Day(cutoff + Days(KEEP_DAYS))
            dates == {n.day : n \in {m \in DOMAIN archive : m.kind = "date"}}
        IN  /\ dates \subseteq (today - 6)..today
            /\ Cardinality(dates) <= 7


\* C10 holds of the runs that load the window at any instant but midnight
C10_NotAtMidnight ==
    (pc = "done" /\ cutoff # NoDate /\ cutoff % TicksPerDay # 0) =>
        LET today == Day(cutoff + Days(KEEP_DAYS))
            dates == {n.day : n \in {m \in DOMAIN archive : m.kind = "date"}}
        IN  /\ dates \subseteq (today - 6)..today
            /\ Cardinality(dates) <= 7

====
